---- MODULE Spec2Model ----
(***************************************************************************)
(* The session manager of src/contexts/AuthContext.tsx (AuthProvider): the *)
(* token in localStorage, the axios default Authorization header, the      *)
(* React session state, the two axios interceptors, and the operations     *)
(* checkAuth, refreshProfile, signIn and signOut, each cut at its network  *)
(* awaits.  A step of the model is one run of the JavaScript event loop:   *)
(* a call runs up to its first await, a response runs the response         *)
(* interceptor and then the awaiting code up to its next await or its end. *)
(***************************************************************************)
EXTENDS Integers, Sequences, FiniteSets, TLC

VARIABLES localStorage, Authorization, user, profile, loading, isAuthenticated,
          pcCheckAuth, pcSignIn, originalAuthHeader, email,
          pcSignOut, pcRefreshProfile, last

vars == <<localStorage, Authorization, user, profile, loading, isAuthenticated,
          pcCheckAuth, pcSignIn, originalAuthHeader, email,
          pcSignOut, pcRefreshProfile, last>>

(***************************************************************************)
(* Bounds.                                                                 *)
(***************************************************************************)
\* number of distinct token strings the server can hand out
NumTokens == 2
\* number of requests that can be awaiting their response at the same time
\* (and so of operations that can overlap)
MaxInFlight == 2

(***************************************************************************)
(* Values.  JavaScript null/undefined is Null; "" is the empty string.     *)
(***************************************************************************)
Null == "<null>"

TokenNames == <<"abc123", "tok2", "tok3", "tok4">>

Tokens == {TokenNames[i] : i \in 1..NumTokens}

\* a token-valued field of a response: absent, empty, or a token
TokOpt == {Null, ""} \cup Tokens

\* JavaScript truthiness of a string-or-null value
Truthy(v) == v # Null /\ v # ""

\* the template literal `Bearer ${token}`
Bearer(token) == "Bearer " \o token

\* the spec's "two overlapping signIn calls": two call slots (how many
\* operations overlap in all is bounded by MaxInFlight)
SignInIds == {1, 2}

Emails == {"a@x.com"}

NullUser == [name |-> Null, email |-> Null, api_token |-> Null]

\* user objects the login endpoint can return: without an api_token, or
\* with one (which a top-level token of the response may equal or not)
ServerUsers == [name : {"A"}, email : Emails, api_token : {Null, TokenNames[1]}]

\* user objects the check-auth endpoint can return
CheckAuthUsers == [name : {"A"}, email : Emails, api_token : {Null}]

Profiles == {"P1"}

\* JSON.stringify(userData), as written under the "user" key
Stringify(u) == ToString(u)

\* the placeholder user signIn synthesizes when the server omits the user
PlaceholderUser(e) == [name |-> "Admin", email |-> e, api_token |-> Null]

(***************************************************************************)
(* Responses.  status 0 is a transport failure (the axios error carries no *)
(* response); 200 resolves the request; every other status rejects it.     *)
(* errmsg is error.message of a transport failure.                         *)
(***************************************************************************)
NoResp ==
  [status |-> -1, token |-> Null, user |-> NullUser, success |-> FALSE,
   message |-> Null, authenticated |-> FALSE, data |-> Null, errmsg |-> Null]

ErrorStatus == {401, 500}

\* statuses signIn's catch block has no branch of its own for
OtherStatus == {422}

MsgOpt == {Null, "msg"}

\* rejected requests as the session code sees them (only signIn's catch
\* looks past the status)
ErrorResponses ==
  {[NoResp EXCEPT !.status = s] : s \in ErrorStatus}
  \cup {[NoResp EXCEPT !.status = 0, !.errmsg = "Network Error"]}

LoginErrorResponses ==
  {[NoResp EXCEPT !.status = s, !.message = m] :
     s \in ErrorStatus \cup OtherStatus, m \in MsgOpt}
  \cup {[NoResp EXCEPT !.status = 0, !.errmsg = e] :
          e \in {"Network Error", "timeout exceeded"}}

LoginResponses ==
  {[NoResp EXCEPT !.status = 200, !.token = t, !.user = u, !.success = TRUE] :
     t \in TokOpt, u \in {NullUser} \cup ServerUsers}
  \cup {[NoResp EXCEPT !.status = 200, !.message = m] : m \in MsgOpt}
  \cup LoginErrorResponses

CheckAuthResponses ==
  {[NoResp EXCEPT !.status = 200, !.authenticated = a, !.user = u] :
     a \in BOOLEAN, u \in {NullUser} \cup CheckAuthUsers}
  \cup ErrorResponses

ProfileResponses ==
  {[NoResp EXCEPT !.status = 200, !.success = TRUE, !.data = d] :
     d \in {Null} \cup Profiles}
  \cup {[NoResp EXCEPT !.status = 200]}
  \cup ErrorResponses

LogoutResponses == {[NoResp EXCEPT !.status = 200]} \cup ErrorResponses

(***************************************************************************)
(* The mutable world the handlers act on, as one record.                   *)
(***************************************************************************)
World ==
  [localStorage |-> localStorage, Authorization |-> Authorization, user |-> user,
   profile |-> profile, loading |-> loading, isAuthenticated |-> isAuthenticated]

SetWorld(w) ==
  /\ localStorage' = w.localStorage
  /\ Authorization' = w.Authorization
  /\ user' = w.user
  /\ profile' = w.profile
  /\ loading' = w.loading
  /\ isAuthenticated' = w.isAuthenticated

EmptyStorage == [admin_token |-> Null, token |-> Null, user |-> Null]

\* localStorage.getItem("admin_token") || localStorage.getItem("token")
getToken(ls) == IF Truthy(ls.admin_token) THEN ls.admin_token ELSE ls.token

\* setToken as a version that writes the primary key only
setTokenPrimaryOnly(w, token) ==
  [w EXCEPT !.localStorage.admin_token = token,
            !.Authorization = Bearer(token)]

setToken(w, token) ==
  [w EXCEPT !.localStorage.admin_token = token,
            !.localStorage.token = token,
            !.Authorization = Bearer(token)]

removeToken(w) ==
  [w EXCEPT !.localStorage = EmptyStorage, !.Authorization = Null]

\* requestInterceptor as a version that leaves a header already on the
\* request alone
requestInterceptorKeepsHeader(w, configAuth) ==
  IF Truthy(getToken(w.localStorage)) /\ configAuth = Null
    THEN Bearer(getToken(w.localStorage))
    ELSE configAuth

\* the Authorization header of an outgoing request after the request
\* interceptor; configAuth is the header of the merged request config
requestInterceptor(w, configAuth) ==
  IF Truthy(getToken(w.localStorage))
    THEN Bearer(getToken(w.localStorage))
    ELSE configAuth

\* axios merges the per-request headers over the defaults, then runs the
\* request interceptor: the Authorization header the request goes out with
SentAuthorization(w, callerAuth) ==
  requestInterceptor(w, IF callerAuth # Null THEN callerAuth ELSE w.Authorization)

\* responseInterceptor as a version that resets the state but forgets the
\* stored token
responseInterceptorKeepsToken(w, r) ==
  IF r.status = 401
    THEN [w EXCEPT !.user = NullUser, !.profile = Null, !.isAuthenticated = FALSE]
    ELSE w

\* the response interceptor's error handler (a 200 passes through unchanged)
responseInterceptor(w, r) ==
  IF r.status = 401
    THEN [removeToken(w) EXCEPT !.user = NullUser, !.profile = Null,
                                !.isAuthenticated = FALSE]
    ELSE w

\* The last step taken: the operation op (signIn call id), whether it was a
\* call or the handling of a response, the endpoint req the step sent a
\* request to (call) or got the response r from, the Authorization header
\* auth of the request the step sent (caller: the header its caller put on
\* it), and the result an operation ending in this step returned or threw.
Event(op, id, kind, req, r, auth, caller, result) ==
  [op |-> op, id |-> id, kind |-> kind, req |-> req, resp |-> r,
   auth |-> auth, caller |-> caller, result |-> result]

(***************************************************************************)
(* Initial state: the module is loaded and AuthProvider constructed, its   *)
(* effects not yet run.  localStorage is what an earlier run of this code  *)
(* left: empty, or one token under both keys with a stored user.           *)
(***************************************************************************)
InitStorages ==
  {EmptyStorage} \cup
  {[admin_token |-> t, token |-> t, user |-> Stringify(PlaceholderUser(e))] :
     t \in {TokenNames[NumTokens]}, e \in Emails}

Init ==
  /\ localStorage \in InitStorages
  /\ Authorization = Null
  /\ user = NullUser
  /\ profile = Null
  /\ loading = TRUE
  /\ isAuthenticated = FALSE
  /\ pcCheckAuth = "start"
  /\ pcSignIn = [i \in SignInIds |-> "idle"]
  /\ originalAuthHeader = [i \in SignInIds |-> Null]
  /\ email = [i \in SignInIds |-> Null]
  /\ pcSignOut = "idle"
  /\ pcRefreshProfile = "idle"
  /\ last = Event("init", 0, "call", "none", NoResp, Null, Null, "none")

(***************************************************************************)
(* checkAuth, run once by the startup effect.                              *)
(***************************************************************************)
\* the startup effect's own header assignment, before it calls checkAuth
startupEffect(w) ==
  IF Truthy(getToken(w.localStorage))
    THEN [w EXCEPT !.Authorization = Bearer(getToken(w.localStorage))]
    ELSE w

\* checkAuth up to its first await (or its early return)
checkAuthBegin(w) ==
  IF ~Truthy(getToken(w.localStorage))
    THEN [w EXCEPT !.loading = FALSE, !.isAuthenticated = FALSE]
    ELSE [w EXCEPT !.Authorization = Bearer(getToken(w.localStorage))]

\* checkAuthSends as a version whose early return is missing
checkAuthSendsAlways(w) == TRUE

\* whether checkAuth goes on to send the check-auth request
checkAuthSends(w) == Truthy(getToken(w.localStorage))

\* the check-auth response is affirmative
checkAuthAffirmative(r) == r.status = 200 /\ r.authenticated /\ r.user # NullUser

\* checkAuthCatch as a version that leaves the stored token and the default
\* header in place
checkAuthCatchKeepsToken(w) ==
  [w EXCEPT !.user = NullUser, !.profile = Null,
            !.isAuthenticated = FALSE, !.loading = FALSE]

\* checkAuth's catch and finally blocks
checkAuthCatch(w) ==
  [removeToken(w) EXCEPT !.user = NullUser, !.profile = Null,
                         !.isAuthenticated = FALSE, !.loading = FALSE]

\* checkAuth resumed with the check-auth response r (interceptor already run)
checkAuthOnCheck(w, r) ==
  IF checkAuthAffirmative(r)
    THEN [w EXCEPT !.user = r.user, !.isAuthenticated = TRUE]
    ELSE checkAuthCatch(w)

\* a best-effort profile fetch resumed with the profile response r
profileFetched(w, r) ==
  IF r.status = 200 /\ r.success /\ r.data # Null
    THEN [w EXCEPT !.profile = r.data]
    ELSE w

\* checkAuthOnProfile as a version without the finally block
checkAuthOnProfileKeepsLoading(w, r) == profileFetched(w, r)

\* checkAuth resumed with the profile response r, through its finally block
checkAuthOnProfile(w, r) == [profileFetched(w, r) EXCEPT !.loading = FALSE]

\* what checkAuth hands its caller once the response r is dealt with: its
\* catch block rethrows nothing
checkAuthResult(r) == "ok"

Startup ==
  /\ pcCheckAuth = "start"
  /\ LET w0 == startupEffect(World)
         w1 == checkAuthBegin(w0)
         sends == checkAuthSends(w0)
     IN /\ SetWorld(w1)
        /\ pcCheckAuth' = IF sends THEN "check" ELSE "done"
        /\ last' = Event("checkAuth", 0, "call",
                         IF sends THEN "check-auth" ELSE "none", NoResp,
                         IF sends THEN SentAuthorization(w1, Null) ELSE Null, Null,
                         IF sends THEN "none" ELSE "ok")
  /\ UNCHANGED <<pcSignIn, originalAuthHeader, email,
                 pcSignOut, pcRefreshProfile>>

CheckAuthResponseWith(r) ==
  /\ pcCheckAuth = "check"
  /\ LET w1 == responseInterceptor(World, r)
         w2 == checkAuthOnCheck(w1, r)
         ok == checkAuthAffirmative(r)
     IN /\ SetWorld(w2)
        /\ pcCheckAuth' = IF ok THEN "profile" ELSE "done"
        /\ last' = Event("checkAuth", 0, "response", "check-auth", r,
                         IF ok THEN SentAuthorization(w2, Null) ELSE Null, Null,
                         IF ok THEN "none" ELSE checkAuthResult(r))
  /\ UNCHANGED <<pcSignIn, originalAuthHeader, email,
               pcSignOut, pcRefreshProfile>>

CheckAuthResponse == \E r \in CheckAuthResponses : CheckAuthResponseWith(r)

CheckAuthProfileResponseWith(r) ==
  /\ pcCheckAuth = "profile"
  /\ LET w1 == responseInterceptor(World, r)
         w2 == checkAuthOnProfile(w1, r)
     IN /\ SetWorld(w2)
        /\ pcCheckAuth' = "done"
        /\ last' = Event("checkAuth", 0, "response", "profile", r, Null, Null,
                         checkAuthResult(r))
  /\ UNCHANGED <<pcSignIn, originalAuthHeader, email,
               pcSignOut, pcRefreshProfile>>

CheckAuthProfileResponse == \E r \in ProfileResponses : CheckAuthProfileResponseWith(r)

\* the number of requests awaiting their response
InFlight ==
  (IF pcCheckAuth \in {"check", "profile"} THEN 1 ELSE 0)
  + Cardinality({i \in SignInIds : pcSignIn[i] # "idle"})
  + (IF pcSignOut # "idle" THEN 1 ELSE 0)
  + (IF pcRefreshProfile # "idle" THEN 1 ELSE 0)

\* an operation can be called: the startup effect has run
CanCall == pcCheckAuth # "start" /\ InFlight < MaxInFlight

(***************************************************************************)
(* refreshProfile.                                                         *)
(***************************************************************************)
\* refreshProfileOnProfile as a version that treats a failed fetch the way
\* checkAuth treats a failed check
refreshProfileOnProfileClears(w, r) ==
  IF r.status = 200
    THEN profileFetched(w, r)
    ELSE [removeToken(w) EXCEPT !.user = NullUser, !.profile = Null,
                                !.isAuthenticated = FALSE]

\* refreshProfile resumed with the profile response r (errors are swallowed)
refreshProfileOnProfile(w, r) == profileFetched(w, r)

\* refreshProfileResult as a version whose catch block rethrows
refreshProfileResultRethrows(r) == IF r.status = 200 THEN "ok" ELSE "error"

\* what refreshProfile hands its caller: its catch block only logs
refreshProfileResult(r) == "ok"

RefreshProfileCall ==
  /\ CanCall
  /\ pcRefreshProfile = "idle"
  /\ pcRefreshProfile' = "profile"
  /\ last' = Event("refreshProfile", 0, "call", "profile", NoResp,
                   SentAuthorization(World, Null), Null, "none")
  /\ UNCHANGED <<localStorage, Authorization, user, profile, loading,
                 isAuthenticated, pcCheckAuth, pcSignIn, originalAuthHeader,
                 email, pcSignOut>>

RefreshProfileResponseWith(r) ==
  /\ pcRefreshProfile = "profile"
  /\ LET w1 == responseInterceptor(World, r)
         w2 == refreshProfileOnProfile(w1, r)
     IN /\ SetWorld(w2)
        /\ last' = Event("refreshProfile", 0, "response", "profile", r, Null, Null,
                         refreshProfileResult(r))
  /\ pcRefreshProfile' = "idle"
  /\ UNCHANGED <<pcCheckAuth, pcSignIn, originalAuthHeader, email,
               pcSignOut>>

RefreshProfileResponse == \E r \in ProfileResponses : RefreshProfileResponseWith(r)

(***************************************************************************)
(* signIn.                                                                 *)
(***************************************************************************)
NoTokenMessage == "Login failed - no token in response"

\* signIn up to its first await: the default header is deleted
signInBegin(w) == [w EXCEPT !.Authorization = Null]

\* signInToken as a version that looks at user.api_token first
signInTokenNestedFirst(r) ==
  IF r.user # NullUser /\ Truthy(r.user.api_token) THEN r.user.api_token
  ELSE IF Truthy(r.token) THEN r.token
  ELSE Null

\* the token signIn extracts from a resolved login response (Null: none)
signInToken(r) ==
  IF Truthy(r.token) THEN r.token
  ELSE IF r.user # NullUser /\ Truthy(r.user.api_token) THEN r.user.api_token
  ELSE Null

\* response.data.user || {id: 1, name: 'Admin', email, role: 'admin'}
signInUserData(r, e) == IF r.user # NullUser THEN r.user ELSE PlaceholderUser(e)

\* signInStore as a version that keeps the user of a session that is already
\* authenticated
signInStoreKeepsUser(w, r, e) ==
  [setToken(w, signInToken(r)) EXCEPT
     !.localStorage.user = Stringify(signInUserData(r, e)),
     !.user = IF w.isAuthenticated THEN w.user ELSE signInUserData(r, e),
     !.isAuthenticated = TRUE]

\* signIn from the token found to the profile request
signInStore(w, r, e) ==
  [setToken(w, signInToken(r)) EXCEPT
     !.localStorage.user = Stringify(signInUserData(r, e)),
     !.user = signInUserData(r, e),
     !.isAuthenticated = TRUE]

\* the error signIn's catch block receives for the login response r: the
\* axios error of a rejected request, or the Error thrown for a missing token
signInError(r) ==
  IF r.status = 200 THEN [NoResp EXCEPT !.errmsg = NoTokenMessage] ELSE r

\* signInCatch as a version that does not restore the header
signInCatchNoRestore(w, orig) == w

\* the catch block's header restore
signInCatch(w, orig) ==
  IF Truthy(orig) THEN [w EXCEPT !.Authorization = orig] ELSE w

\* signInErrorKind as a version that looks for the server's message before it
\* looks at the status
signInErrorKindMessageFirst(err) ==
  IF Truthy(err.message) THEN "ServerMessage"
  ELSE IF err.status = 401 THEN "InvalidCredentials"
  ELSE IF err.status = 500 THEN "ServerError"
  ELSE IF err.errmsg = NoTokenMessage THEN "NoTokenInResponse"
  ELSE IF err.errmsg = "Network Error" THEN "NetworkUnreachable"
  ELSE "Unknown"

\* the catch block's classification of the error it rethrows
signInErrorKind(err) ==
  IF err.status = 401 THEN "InvalidCredentials"
  ELSE IF err.status = 500 THEN "ServerError"
  ELSE IF Truthy(err.message) THEN "ServerMessage"
  ELSE IF err.errmsg = NoTokenMessage THEN "NoTokenInResponse"
  ELSE IF err.errmsg = "Network Error" THEN "NetworkUnreachable"
  ELSE "Unknown"

\* the login response r lets signIn go on to store a token
signInAccepts(r) == r.status = 200 /\ signInToken(r) # Null

\* signIn resumed with the login response r (interceptor already run)
signInOnLogin(w, r, e, orig) ==
  IF signInAccepts(r) THEN signInStore(w, r, e) ELSE signInCatch(w, orig)

\* signInOnProfile as a version whose profile fetch is not wrapped in its own
\* try/catch, so that a rejected fetch reaches the outer handling and the
\* session is dropped
signInOnProfileFatal(w, r) ==
  IF r.status = 200
    THEN profileFetched(w, r)
    ELSE [w EXCEPT !.user = NullUser, !.isAuthenticated = FALSE]

\* signIn resumed with the profile response r (errors are swallowed)
signInOnProfile(w, r) == profileFetched(w, r)

\* calls of signIn have no identity of their own: a new call takes the
\* lowest free index
SignInCall(i) ==
  /\ CanCall
  /\ pcSignIn[i] = "idle"
  /\ \A j \in SignInIds : j < i => pcSignIn[j] # "idle"
  /\ \E e \in Emails :
       LET w1 == signInBegin(World)
       IN /\ SetWorld(w1)
          /\ originalAuthHeader' = [originalAuthHeader EXCEPT ![i] = Authorization]
          /\ email' = [email EXCEPT ![i] = e]
          /\ last' = Event("signIn", i, "call", "login", NoResp,
                           SentAuthorization(w1, Null), Null, "none")
  /\ pcSignIn' = [pcSignIn EXCEPT ![i] = "login"]
  /\ UNCHANGED <<pcCheckAuth, pcSignOut, pcRefreshProfile>>

SignInLoginResponseWith(i, r) ==
  /\ pcSignIn[i] = "login"
  /\ LET w1 == responseInterceptor(World, r)
         w2 == signInOnLogin(w1, r, email[i], originalAuthHeader[i])
         ok == signInAccepts(r)
     IN /\ SetWorld(w2)
        /\ pcSignIn' = [pcSignIn EXCEPT ![i] = IF ok THEN "profile" ELSE "idle"]
        /\ originalAuthHeader' =
             IF ok THEN originalAuthHeader
                   ELSE [originalAuthHeader EXCEPT ![i] = Null]
        /\ email' = IF ok THEN email ELSE [email EXCEPT ![i] = Null]
        /\ last' = Event("signIn", i, "response", "login", r,
                         IF ok THEN SentAuthorization(w2, Null) ELSE Null, Null,
                         IF ok THEN "none" ELSE signInErrorKind(signInError(r)))
  /\ UNCHANGED <<pcCheckAuth, pcSignOut, pcRefreshProfile>>

SignInLoginResponse(i) == \E r \in LoginResponses : SignInLoginResponseWith(i, r)

SignInProfileResponseWith(i, r) ==
  /\ pcSignIn[i] = "profile"
  /\ LET w1 == responseInterceptor(World, r)
         w2 == signInOnProfile(w1, r)
     IN /\ SetWorld(w2)
        /\ last' = Event("signIn", i, "response", "profile", r, Null, Null, "ok")
  /\ pcSignIn' = [pcSignIn EXCEPT ![i] = "idle"]
  /\ originalAuthHeader' = [originalAuthHeader EXCEPT ![i] = Null]
  /\ email' = [email EXCEPT ![i] = Null]
  /\ UNCHANGED <<pcCheckAuth, pcSignOut, pcRefreshProfile>>

SignInProfileResponse(i) == \E r \in ProfileResponses : SignInProfileResponseWith(i, r)

(***************************************************************************)
(* signOut.                                                                *)
(***************************************************************************)
\* signOutFinally as a version that forgets the default header
signOutFinallyKeepsHeader(w) ==
  [w EXCEPT !.localStorage = EmptyStorage, !.user = NullUser, !.profile = Null,
            !.isAuthenticated = FALSE]

\* signOut's finally block
signOutFinally(w) ==
  [removeToken(w) EXCEPT !.user = NullUser, !.profile = Null,
                         !.isAuthenticated = FALSE]

\* what signOut hands its caller: its catch block only logs
signOutResult(r) == "ok"

SignOutCall ==
  /\ CanCall
  /\ pcSignOut = "idle"
  /\ pcSignOut' = "logout"
  /\ last' = Event("signOut", 0, "call", "logout", NoResp,
                   SentAuthorization(World, Null), Null, "none")
  /\ UNCHANGED <<localStorage, Authorization, user, profile, loading,
                 isAuthenticated, pcCheckAuth, pcSignIn, originalAuthHeader,
                 email, pcRefreshProfile>>

SignOutResponseWith(r) ==
  /\ pcSignOut = "logout"
  /\ LET w1 == responseInterceptor(World, r)
         w2 == signOutFinally(w1)
     IN /\ SetWorld(w2)
        /\ last' = Event("signOut", 0, "response", "logout", r, Null, Null,
                         signOutResult(r))
  /\ pcSignOut' = "idle"
  /\ UNCHANGED <<pcCheckAuth, pcSignIn, originalAuthHeader, email,
               pcRefreshProfile>>

SignOutResponse == \E r \in LogoutResponses : SignOutResponseWith(r)

(***************************************************************************)
(* A request the rest of the application sends through the shared axios    *)
(* instance, with or without an Authorization header of its own: the       *)
(* request interceptor applies to it.  (A 401 answered to it has the       *)
(* effect of a 401 answered to refreshProfile.)                            *)
(***************************************************************************)
CallerAuths == {Null, "Basic app"}

AppRequest ==
  /\ pcCheckAuth # "start"
  /\ \E c \in CallerAuths :
       last' = Event("app", 0, "call", "app", NoResp, SentAuthorization(World, c), c, "none")
  /\ UNCHANGED <<localStorage, Authorization, user, profile, loading,
                 isAuthenticated, pcCheckAuth, pcSignIn, originalAuthHeader,
                 email, pcSignOut, pcRefreshProfile>>

Next ==
  \/ Startup
  \/ CheckAuthResponse
  \/ CheckAuthProfileResponse
  \/ RefreshProfileCall
  \/ RefreshProfileResponse
  \/ \E i \in SignInIds : SignInCall(i)
  \/ \E i \in SignInIds : SignInLoginResponse(i)
  \/ \E i \in SignInIds : SignInProfileResponse(i)
  \/ SignOutCall
  \/ SignOutResponse
  \/ AppRequest

Spec == Init /\ [][Next]_vars

(***************************************************************************)
(* The same program under the assumption that the startup effect runs and  *)
(* that the requests checkAuth sends are answered, by a response or by an  *)
(* error; nothing is assumed of the other requests.  The three steps of    *)
(* checkAuth exclude each other and each stays enabled until it is taken,  *)
(* so weak fairness of their disjunction is weak fairness of each.         *)
(***************************************************************************)
CheckAuthStep == Startup \/ CheckAuthResponse \/ CheckAuthProfileResponse

LiveSpec == Spec /\ WF_vars(CheckAuthStep)

(***************************************************************************)
(* Properties.  last, which every action sets, tells which step was taken  *)
(* last: last.op = ... => P says what holds right after such a step, and   *)
(* [][last'.op = ... => P]_vars what such a step changes.                  *)
(***************************************************************************)
TokenStored == Truthy(localStorage.admin_token) \/ Truthy(localStorage.token)

SessionCleared == user = NullUser /\ profile = Null /\ ~isAuthenticated

IsResponse(e, op, req) == e.kind = "response" /\ e.op = op /\ e.req = req

\* a profile response that does not deliver a profile
ProfileFailed(r) == ~(r.status = 200 /\ r.success /\ r.data # Null)

\* C1: in every reachable state, also with operations suspended at an await,
\* isAuthenticated implies a token in storage and a default Authorization
\* header.
C1_AuthenticatedHasTokenAndHeader ==
  isAuthenticated => TokenStored /\ Authorization # Null

\* C2: right after a response with HTTP 401 to any request, the session state
\* is {user: null, profile: null, isAuthenticated: false} and neither storage
\* key holds a token.
C2_After401SessionReset ==
  (last.kind = "response" /\ last.resp.status = 401)
    => SessionCleared /\ ~TokenStored

\* a 401 to the login request of a signIn that was called with a header set
\* (the catch block has put the header back)
C2_Witness ==
  /\ IsResponse(last, "signIn", "login")
  /\ last.resp.status = 401
  /\ last.result = "InvalidCredentials"
  /\ Authorization # Null

\* C3: right after signIn has handled a resolved login response that carries a
\* token, the value under both storage keys is the top-level token if that is
\* non-empty and user.api_token otherwise, the default header is Bearer of
\* that value, and isAuthenticated is true.
C3_SignInStoresPickedToken ==
  (/\ IsResponse(last, "signIn", "login")
   /\ last.resp.status = 200
   /\ (Truthy(last.resp.token) \/ Truthy(last.resp.user.api_token)))
    => LET t == IF Truthy(last.resp.token) THEN last.resp.token
                                           ELSE last.resp.user.api_token
       IN /\ localStorage.admin_token = t
          /\ localStorage.token = t
          /\ Authorization = "Bearer " \o t
          /\ isAuthenticated

\* both fields present and different: the top-level token is the one stored
C3_Witness ==
  /\ IsResponse(last, "signIn", "login")
  /\ last.resp.status = 200
  /\ Truthy(last.resp.token)
  /\ Truthy(last.resp.user.api_token)
  /\ last.resp.token # last.resp.user.api_token
  /\ localStorage.token = last.resp.token
  /\ user = last.resp.user

\* a resolved login response without any token
NoToken(r) == r.status = 200 /\ ~Truthy(r.token) /\ ~Truthy(r.user.api_token)

\* C4: the step in which signIn handles a resolved login response with neither
\* a top-level token nor user.api_token ends signIn with NoTokenInResponse,
\* leaves isAuthenticated (false stays false) and every storage key as they
\* were, and sets the default header to the value saved at the call if there
\* was one.
C4_NoTokenFails ==
  [][(IsResponse(last', "signIn", "login") /\ NoToken(last'.resp))
       => /\ last'.result = "NoTokenInResponse"
          /\ pcSignIn'[last'.id] = "idle"
          /\ isAuthenticated' = isAuthenticated
          /\ localStorage' = localStorage
          /\ IF originalAuthHeader[last'.id] # Null
               THEN Authorization' = originalAuthHeader[last'.id]
               ELSE Authorization' = Authorization]_vars

\* a tokenless login response answered to a signIn called with a header set
\* and a token stored: the header is back, the storage untouched
C4_Witness ==
  /\ IsResponse(last, "signIn", "login")
  /\ NoToken(last.resp)
  /\ last.resp.success
  /\ last.resp.user = NullUser
  /\ last.result = "NoTokenInResponse"
  /\ Authorization # Null
  /\ TokenStored
  /\ \A i \in SignInIds : pcSignIn[i] = "idle"

\* C5: right after signOut has handled the outcome of its logout request,
\* whatever it was, the three storage keys are removed, the default header is
\* deleted and user, profile and isAuthenticated are reset.
C5_SignOutClears ==
  IsResponse(last, "signOut", "logout")
    => localStorage = EmptyStorage /\ Authorization = Null /\ SessionCleared

\* signOut after a logout request that failed at transport level
C5_Witness ==
  /\ IsResponse(last, "signOut", "logout")
  /\ last.resp.status = 0
  /\ localStorage = EmptyStorage

\* C6: isAuthenticated goes from true to false only in signOut's cleanup or
\* in the handling of a response with HTTP 401.
C6_LeavesAuthenticatedOnlyBySignOutOr401 ==
  [][(isAuthenticated /\ ~isAuthenticated')
       => \/ IsResponse(last', "signOut", "logout")
          \/ (last'.kind = "response" /\ last'.resp.status = 401)]_vars

\* C7: no step of refreshProfile, whatever the outcome of its profile request
\* (401 included), changes isAuthenticated or the stored token.
C7_RefreshProfileKeepsAuth ==
  [][last'.op = "refreshProfile"
       => /\ isAuthenticated' = isAuthenticated
          /\ localStorage' = localStorage]_vars

\* C7 as amended: no step of refreshProfile changes isAuthenticated or the
\* stored token, unless its profile request is answered with HTTP 401.
C7_RefreshProfileKeepsAuthUnless401 ==
  [][(last'.op = "refreshProfile" /\ last'.resp.status # 401)
       => /\ isAuthenticated' = isAuthenticated
          /\ localStorage' = localStorage]_vars

\* refreshProfile of an authenticated session, answered with a server error
C7_Witness ==
  /\ IsResponse(last, "refreshProfile", "profile")
  /\ last.resp.status = 500
  /\ isAuthenticated
  /\ TokenStored

\* the step is signIn or checkAuth handling the response of its profile fetch
ProfileStep(e) ==
  IsResponse(e, "signIn", "profile") \/ IsResponse(e, "checkAuth", "profile")

\* C8: the step in which signIn or checkAuth handles a failed profile fetch
\* (any failure) completes the operation without error, with isAuthenticated
\* true, user set and the token in storage.
C8_ProfileFailureNotFatal ==
  [][(ProfileStep(last') /\ ProfileFailed(last'.resp))
       => /\ last'.result = "ok"
          /\ isAuthenticated'
          /\ user' # NullUser
          /\ TokenStored']_vars

\* C8 as amended: the step in which signIn or checkAuth handles a failed
\* profile fetch other than an HTTP 401 completes the operation without error
\* and leaves isAuthenticated, user and the storage as they were.
C8_ProfileFailureNotFatalUnless401 ==
  [][(ProfileStep(last') /\ ProfileFailed(last'.resp) /\ last'.resp.status # 401)
       => /\ last'.result = "ok"
          /\ isAuthenticated' = isAuthenticated
          /\ user' = user
          /\ localStorage' = localStorage]_vars

\* signIn completed after a profile fetch that failed with a server error,
\* the session intact
C8_Witness ==
  /\ IsResponse(last, "signIn", "profile")
  /\ last.resp.status = 500
  /\ last.result = "ok"
  /\ isAuthenticated
  /\ user # NullUser
  /\ profile = Null
  /\ TokenStored

\* C9: right after checkAuth was called with no token under either storage
\* key, loading and isAuthenticated are false and no request was sent.
C9_CheckAuthNoToken ==
  (last.op = "checkAuth" /\ last.kind = "call" /\ ~TokenStored)
    => /\ ~loading
       /\ ~isAuthenticated
       /\ last.req = "none"
       /\ pcCheckAuth = "done"
       /\ InFlight = 0

C9_Witness ==
  /\ last.op = "checkAuth"
  /\ last.kind = "call"
  /\ localStorage = EmptyStorage
  /\ ~loading

\* C10: a request goes out with the header its caller set on it, whenever the
\* caller set one; the interceptor injects the stored token only into a
\* request without one.
C10_CallerHeaderKept ==
  (last.kind = "call" /\ last.req # "none" /\ last.caller # Null)
    => last.auth = last.caller

\* C10 as amended: a request goes out with Bearer of the stored token
\* whenever a token is stored, whatever header its caller set on it; with no
\* token stored it goes out with the caller's header, or else the default.
C10_StoredTokenOverridesHeader ==
  (last.kind = "call" /\ last.req # "none")
    => last.auth = IF TokenStored
                     THEN "Bearer " \o (IF Truthy(localStorage.admin_token)
                                          THEN localStorage.admin_token
                                          ELSE localStorage.token)
                     ELSE IF last.caller # Null THEN last.caller
                     ELSE Authorization

\* a request whose caller set a header of its own, sent with a token stored
C10_Witness ==
  /\ last.op = "app"
  /\ last.kind = "call"
  /\ last.caller = "Basic app"
  /\ TokenStored
  /\ last.auth = "Bearer " \o localStorage.token

\* both calls of signIn are past their login response, the one just processed
\* being the second of the two
BothSignInsAccepted ==
  /\ \A i \in SignInIds : pcSignIn[i] = "profile"
  /\ IsResponse(last, "signIn", "login")

\* C11: overlapping calls of signIn are not serialised and the last write
\* wins.  When the login responses of two overlapping calls have both been
\* accepted, the stored token (under both keys), the default header, the stored
\* user and the user in memory are all those of the call whose login response
\* was processed last, whichever call was made first; and the profile
\* responses the two calls then wait for leave all of them as they are (a 401
\* aside, which is the session reset of C2 and not a write of either call).
C11_LastLoginResponseWins ==
  [][/\ BothSignInsAccepted'
        => LET r == last'.resp
               t == IF Truthy(r.token) THEN r.token ELSE r.user.api_token
               u == IF r.user # NullUser THEN r.user
                    ELSE PlaceholderUser(email'[last'.id])
           IN /\ localStorage'.admin_token = t
              /\ localStorage'.token = t
              /\ Authorization' = Bearer(t)
              /\ localStorage'.user = Stringify(u)
              /\ user' = u
              /\ isAuthenticated'
     /\ IsResponse(last', "signIn", "profile") /\ last'.resp.status # 401
        => /\ localStorage' = localStorage
           /\ Authorization' = Authorization
           /\ user' = user
           /\ isAuthenticated' = isAuthenticated]_vars

\* the call made first had its login response processed last, and wrote a
\* user that differs from the one the session would otherwise show
C11_Witness ==
  /\ BothSignInsAccepted
  /\ last.id = 1
  /\ last.resp.user # NullUser
  /\ last.resp.token = TokenNames[1]
  /\ user = last.resp.user
  /\ Authorization = Bearer(TokenNames[1])

\* C12: checkAuth with a stored token.  An affirmative check-auth response
\* (authenticated, with a user) sets that user and isAuthenticated = true and
\* goes on to the profile fetch; a negative response or any error removes the
\* token keys and the stored user, deletes the default header, sets user and
\* profile to null and isAuthenticated to false; and whichever way it went,
\* checkAuth has ended with loading = false.
C12_CheckAuthOutcome ==
  /\ IsResponse(last, "checkAuth", "check-auth")
     => IF /\ last.resp.status = 200
           /\ last.resp.authenticated
           /\ last.resp.user # NullUser
          THEN /\ user = last.resp.user
               /\ isAuthenticated
               /\ pcCheckAuth = "profile"
          ELSE /\ localStorage = EmptyStorage
               /\ Authorization = Null
               /\ user = NullUser
               /\ profile = Null
               /\ ~isAuthenticated
               /\ pcCheckAuth = "done"
  /\ pcCheckAuth = "done" => ~loading

\* a stored token was checked and the server answered 200 with
\* authenticated = false
C12_Witness ==
  /\ IsResponse(last, "checkAuth", "check-auth")
  /\ last.resp.status = 200
  /\ ~last.resp.authenticated
  /\ localStorage = EmptyStorage
  /\ Authorization = Null
  /\ ~loading

\* C13: the login request signIn sends carries no Authorization header, even
\* when a token is still in storage.
C13_LoginRequestHasNoAuthorization ==
  (last.op = "signIn" /\ last.kind = "call" /\ last.req = "login")
    => last.auth = Null

SignInErrorKinds ==
  {"InvalidCredentials", "ServerError", "ServerMessage", "NoTokenInResponse",
   "NetworkUnreachable", "Unknown"}

CheckFailed(r) == ~(r.status = 200 /\ r.authenticated /\ r.user # NullUser)

\* C15: signOut, checkAuth and refreshProfile never propagate an error: for
\* every outcome of their requests (error status, transport failure,
\* malformed payload) the operation completes normally, signOut and a failed
\* check leaving the session unauthenticated and a failed refreshProfile
\* leaving the profile as it was.
C15_NeverPropagates ==
  [][/\ IsResponse(last', "signOut", "logout")
        => last'.result = "ok" /\ ~isAuthenticated'
     /\ IsResponse(last', "checkAuth", "check-auth") /\ CheckFailed(last'.resp)
        => last'.result = "ok" /\ ~isAuthenticated'
     /\ IsResponse(last', "checkAuth", "profile")
        => last'.result = "ok"
     /\ IsResponse(last', "refreshProfile", "profile")
        => /\ last'.result = "ok"
           /\ ProfileFailed(last'.resp) => profile' = profile]_vars

\* C15 (amended): as above, except that a refreshProfile answered with HTTP
\* 401 leaves no profile at all: the response interceptor has cleared the
\* session before refreshProfile swallows the error.  Every other failed
\* refreshProfile leaves the profile as it was.
C15_NeverPropagatesProfileKeptUnless401 ==
  [][/\ IsResponse(last', "signOut", "logout")
        => last'.result = "ok" /\ ~isAuthenticated'
     /\ IsResponse(last', "checkAuth", "check-auth") /\ CheckFailed(last'.resp)
        => last'.result = "ok" /\ ~isAuthenticated'
     /\ IsResponse(last', "checkAuth", "profile")
        => last'.result = "ok"
     /\ IsResponse(last', "refreshProfile", "profile")
        => /\ last'.result = "ok"
           /\ ProfileFailed(last'.resp)
              => profile' = IF last'.resp.status = 401 THEN Null ELSE profile]_vars

\* refreshProfile was answered with a 500 while a profile was loaded, and
\* returned with that profile still in place
C15_Witness ==
  /\ IsResponse(last, "refreshProfile", "profile")
  /\ last.resp.status = 500
  /\ last.result = "ok"
  /\ profile # Null

\* C16: the two token keys stay in sync.  From a storage whose admin_token
\* and token are equal or both absent, whatever signIn, signOut, checkAuth,
\* refreshProfile and 401 responses do and however they interleave, the two
\* keys are both absent or hold the same non-empty value, and getToken returns
\* that value.
C16_TokenKeysInSync ==
  /\ localStorage.admin_token = localStorage.token
  /\ localStorage.token \in {Null} \cup Tokens
  /\ getToken(localStorage) = localStorage.token

\* a signIn has just replaced the token under both keys
C16_Witness ==
  /\ IsResponse(last, "signIn", "login")
  /\ last.resp.token = TokenNames[1]
  /\ localStorage.admin_token = TokenNames[1]
  /\ localStorage.token = TokenNames[1]
  /\ getToken(localStorage) = TokenNames[1]

\* C17: no stale credential survives invalidation: whenever no operation is
\* in flight and the storage holds no token, the default Authorization header
\* is unset.
C17_NoStaleHeader ==
  (InFlight = 0 /\ ~TokenStored) => Authorization = Null

\* C18: once signOut has completed the session stays unauthenticated, with no
\* token in storage, until a later signIn succeeds.  Stated for the step that
\* follows signOut's completion: a signIn called after it needs a step of its
\* own before its response can arrive, so whatever that step processes is the
\* response of an operation that was in flight when signOut ran, and it must
\* neither set isAuthenticated nor write a token.
C18_SignOutIsFinal ==
  [][IsResponse(last, "signOut", "logout")
       => ~isAuthenticated' /\ ~TokenStored']_vars

\* the session has just been cleared, by signOut's finally block or by the
\* response interceptor on a 401
JustCleared ==
  /\ last.kind = "response"
  /\ last.op = "signOut" \/ last.resp.status = 401

\* C19: in a session that has been cleared, isAuthenticated = false implies
\* user = null and profile = null.  Stated for the step that follows the
\* clear by signOut or by a 401: the response that step processes belongs to
\* an operation that was still in flight, and it must not leave a user or a
\* profile in the unauthenticated session.
C19_ClearedSessionHasNoUser ==
  [][JustCleared
       => (~isAuthenticated' => user' = NullUser /\ profile' = Null)]_vars

\* C20: provided every request that was sent gets a response or an error,
\* loading becomes false after startup and stays false forever: checkAuth
\* sets it to false on every path and nothing sets it back to true.
C20_LoadingSettles == <>[](~loading)

\* checkAuth's profile fetch has been answered with an error and checkAuth
\* has ended with loading = false
C20_Witness ==
  /\ IsResponse(last, "checkAuth", "profile")
  /\ last.resp.status = 500
  /\ pcCheckAuth = "done"
  /\ ~loading

====
